---- MODULE Spec2Model ----
(***************************************************************************)
(* Commit-history search of bleep's answer API: LogSearch::run             *)
(* (server/bleep/src/webserver/answer/git.rs).                             *)
(*                                                                         *)
(* The search walks the ancestry of HEAD newest-first and pushes every     *)
(* commit through the iterator chain                                       *)
(*     skip_while(end_date) -> take_while(start_date) -> filter_map        *)
(* and collects the survivors.  The chain is lazy, so the model pulls one  *)
(* commit at a time: pc is the adapter the commit under `next` has         *)
(* reached.                                                                *)
(*                                                                         *)
(* Text is a sequence of one-character strings, so that to_lowercase and   *)
(* contains are computed and not assumed.  An Option is a sequence of      *)
(* length 0 (None) or 1 (Some).                                            *)
(***************************************************************************)
EXTENDS Integers, Sequences, FiniteSets, TLC

VARIABLES
    self,        \* the LogSearch value: query, author, start_date, end_date, file
    history,     \* head().ancestors().all(): the commits in walk order
    pc,          \* position in run
    start_date,  \* local start_date: Option<gix::date::Time>
    end_date,    \* local end_date: Option<gix::date::Time>
    next,        \* index in history of the commit the chain is pulling
    commits,     \* the Vec<LogSearchResult> being collected
    calls        \* one record per filter_map call: the closure's locals

vars == <<self, history, pc, start_date, end_date, next, commits, calls>>

(***************************************************************************)
(* Bounds of the model.                                                    *)
(***************************************************************************)
MaxCommits == 2

MaxTime == 2

(***************************************************************************)
(* Option<T>                                                               *)
(***************************************************************************)
None == <<>>

Some(x) == <<x>>

IsSome(o) == Len(o) = 1

Unwrap(o) == o[1]

OptionOf(S) == {None} \cup {Some(x) : x \in S}

(***************************************************************************)
(* Text                                                                    *)
(***************************************************************************)
UpperToLower ==
    ("A" :> "a") @@ ("B" :> "b") @@ ("D" :> "d") @@ ("E" :> "e") @@
    ("F" :> "f") @@ ("G" :> "g") @@ ("M" :> "m") @@ ("O" :> "o") @@
    ("R" :> "r") @@ ("U" :> "u")

\* str::to_lowercase
to_lowercase(s) ==
    [k \in 1..Len(s) |->
        IF s[k] \in DOMAIN UpperToLower THEN UpperToLower[s[k]] ELSE s[k]]

\* str::contains / ByteSlice::contains_str: needle occurs in hay
contains(hay, needle) ==
    \E k \in 0..(Len(hay) - Len(needle)) :
        SubSeq(hay, k + 1, k + Len(needle)) = needle

(***************************************************************************)
(* gix::date::Time.  Its ordering is the derived one: the fields are       *)
(* compared in declaration order, seconds_since_unix_epoch, then           *)
(* offset_in_seconds, then sign (Plus before Minus).                       *)
(***************************************************************************)
SignOf(offset) == IF offset < 0 THEN "Minus" ELSE "Plus"

TimeNew(seconds, offset) ==
    [seconds_since_unix_epoch |-> seconds,
     offset_in_seconds |-> offset,
     sign |-> SignOf(offset)]

SignRank(s) == IF s = "Plus" THEN 0 ELSE 1

TimeGt(a, b) ==
    \/ a.seconds_since_unix_epoch > b.seconds_since_unix_epoch
    \/ /\ a.seconds_since_unix_epoch = b.seconds_since_unix_epoch
       /\ \/ a.offset_in_seconds > b.offset_in_seconds
          \/ /\ a.offset_in_seconds = b.offset_in_seconds
             /\ SignRank(a.sign) > SignRank(b.sign)

\* Option<Time> < Option<Time>: None is below every Some
OptionLt(a, b) ==
    IF IsSome(a) /\ IsSome(b) THEN TimeGt(Unwrap(b), Unwrap(a))
    ELSE ~IsSome(a) /\ IsSome(b)

\* parse_date: date.timestamp().try_into().unwrap() is a u32, so a
\* timestamp before the epoch panics; the offset is 0.
ParseDatePanics(date) == date < 0

parse_date(date) == TimeNew(date, 0)

MapParseDate(o) == IF IsSome(o) THEN Some(parse_date(Unwrap(o))) ELSE None

(***************************************************************************)
(* The repository: identities, messages and trees of the commits.  A tree  *)
(* is the set of the locations it holds; AllLocations lists the locations  *)
(* in the order a tree diff reports them.  The history is linear: the      *)
(* first parent of history[i] is history[i + 1] and the last commit is the *)
(* root.                                                                   *)
(***************************************************************************)
Alice == [name |-> <<"A", "l", "i", "c", "e">>,
          email |-> <<"a", "@", "x", ".", "c", "o", "m">>]

Bob == [name |-> <<"B", "o", "b">>,
        email |-> <<"b", "@", "x", ".", "c", "o", "m">>]

Signatures == {Alice, Bob}

MsgFix == <<"F", "i", "x", " ", "b", "u", "g", "\n", "\n", "D", "e", "t">>

MsgAdd == <<"a", "d", "d", " ", "d", "o", "c", "s">>

Messages == {MsgFix, MsgAdd}

ReadmeMd == <<"R", "E", "A", "D", "M", "E", ".", "m", "d">>

SrcLibRs == <<"s", "r", "c", "/", "l", "i", "b", ".", "r", "s">>

AllLocations == <<ReadmeMd, SrcLibRs>>

Trees == SUBSET (1..Len(AllLocations))

\* git.empty_tree()
empty_tree == {}

\* What can go wrong while the path test reads the object store:
\*   "walk"   the first item of commit.ancestors() is Some(Err(_))
\*   "object" id.object() of that item fails, and unwrap() panics
\*   "diff"   for_each_to_obtain_tree returns an error that is no cancellation
Faults == {"none", "walk", "object", "diff"}

Offsets == {<<0, "Plus">>, <<3600, "Plus">>, <<-3600, "Minus">>, <<0, "Minus">>}

CommitTimes ==
    {[seconds_since_unix_epoch |-> t, offset_in_seconds |-> o[1], sign |-> o[2]] :
        t \in 0..MaxTime, o \in Offsets}

Commit(time, author, committer, message, tree, fault) ==
    [time |-> time, author |-> author, committer |-> committer,
     message |-> message, tree |-> tree, fault |-> fault]

SeqsUpTo(S, n) == UNION {[1..k -> S] : k \in 0..n}

(***************************************************************************)
(* The closures of run                                                     *)
(***************************************************************************)
\* check_author that forgets the email
check_author_NameOnly(query, sig) ==
    contains(to_lowercase(sig.name), query)

\* check_author: the query is a substring of the lower-cased name or email
check_author(query, sig) ==
    \/ contains(to_lowercase(sig.name), query)
    \/ contains(to_lowercase(sig.email), query)

\* skip_while predicate
SkipPred(end, commit) ==
    IF IsSome(end) THEN TimeGt(commit.time, Unwrap(end)) ELSE FALSE

\* take_while predicate with skip_while's None arm
TakePred_NoneStops(start, commit) ==
    IF IsSome(start) THEN TimeGt(commit.time, Unwrap(start)) ELSE FALSE

\* take_while predicate
TakePred(start, commit) ==
    IF IsSome(start) THEN TimeGt(commit.time, Unwrap(start)) ELSE TRUE

\* the range left as the caller gave it
RangeOrdered_NoSwap(start, end) == <<start, end>>

\* "enforce ordering of the range": end_date < start_date on the Options
RangeOrdered(start, end) ==
    IF OptionLt(end, start) THEN <<end, start>> ELSE <<start, end>>

\* decision after the author match
AuthorDecision(s, commit) ==
    IF ~IsSome(s.author) THEN TRUE
    ELSE LET query == to_lowercase(Unwrap(s.author))
         IN  check_author(query, commit.author)
                \/ check_author(query, commit.committer)

\* decision after the query match
QueryDecision(s, commit, decision) ==
    IF ~IsSome(s.query) THEN decision
    ELSE contains(to_lowercase(commit.message), to_lowercase(Unwrap(s.query)))

\* commit.ancestors().first_parent_only().all().unwrap().next(): a walk
\* yields its starting commit first, so the item is the commit itself.
FirstOfAncestors(i) == i

\* parent_tree: the tree of that item, or the empty tree when the item is
\* not Some(Ok(_))
ParentTree(hist, i) ==
    IF hist[i].fault = "walk" THEN empty_tree
    ELSE hist[FirstOfAncestors(i)].tree

\* the changes between two trees, as locations in the order of the diff
Changes(tree, other) ==
    LET changed == (tree \ other) \cup (other \ tree)
        ids == SelectSeq([k \in 1..Len(AllLocations) |-> k],
                         LAMBDA p : p \in changed)
    IN  [k \in 1..Len(ids) |-> AllLocations[ids[k]]]

\* a callback that records the match and goes on
Callback_NoCancel(change, f, decision) ==
    IF contains(change, f)
    THEN [decision |-> TRUE, action |-> "Continue"]
    ELSE [decision |-> decision, action |-> "Continue"]

\* the callback of for_each_to_obtain_tree; decision is the variable the
\* closure captures
Callback(change, f, decision) ==
    IF contains(change, f)
    THEN [decision |-> TRUE, action |-> "Cancel"]
    ELSE [decision |-> decision, action |-> "Continue"]

\* for_each_to_obtain_tree from the k-th change on: the callback is called
\* on each change until it answers Cancel
RECURSIVE ForEach(_, _, _, _, _)
ForEach(changes, f, k, decision, visited) ==
    IF k > Len(changes) THEN [decision |-> decision, visited |-> visited]
    ELSE LET r == Callback(changes[k], f, decision)
             seen == Append(visited, changes[k])
         IN  IF r.action = "Cancel"
             THEN [decision |-> r.decision, visited |-> seen]
             ELSE ForEach(changes, f, k + 1, r.decision, seen)

\* the file branch: its decision and the changes the callback saw.  The
\* result of for_each_to_obtain_tree is assigned to _, so an error of the
\* diff leaves decision false.
FileTest(hist, i, f) ==
    IF hist[i].fault = "diff" THEN [decision |-> FALSE, visited |-> <<>>]
    ELSE ForEach(Changes(hist[i].tree, ParentTree(hist, i)), f, 1, FALSE, <<>>)

\* id.object().unwrap() in the file branch
FilterPanics(s, hist, i) == IsSome(s.file) /\ hist[i].fault = "object"

\* the decision as a conjunction of the criteria ("AND logic")
Decision_And(s, hist, i) ==
    /\ AuthorDecision(s, hist[i])
    /\ QueryDecision(s, hist[i], TRUE)
    /\ IsSome(s.file) => FileTest(hist, i, Unwrap(s.file)).decision

\* the decision of one filter_map call
Decision(s, hist, i) ==
    LET d1 == AuthorDecision(s, hist[i])
        d2 == QueryDecision(s, hist[i], d1)
    IN  IF ~IsSome(s.file) THEN d2
        ELSE FileTest(hist, i, Unwrap(s.file)).decision

to_author_string(sig) == sig.name \o <<" ", "<">> \o sig.email \o <<">">>

\* message().summary(): the first line of the message
Summary(message) ==
    LET breaks == {k \in 1..Len(message) : message[k] = "\n"}
    IN  IF breaks = {} THEN message
        ELSE SubSeq(message, 1,
                    (CHOOSE k \in breaks : \A j \in breaks : k <= j) - 1)

\* the LogSearchResult of a commit; the hash of history[i] is i
LogSearchResult(hist, i) ==
    [hash |-> i,
     author |-> to_author_string(hist[i].author),
     committer |-> to_author_string(hist[i].committer),
     message |-> Summary(hist[i].message),
     time |-> hist[i].time]

(***************************************************************************)
(* The inputs.  Three families of searches, each one varying the part of   *)
(* the criteria and of the commits that one stage of the chain reads.      *)
(***************************************************************************)
Text_alice == <<"a", "l", "i", "c", "e">>

Text_BOB == <<"B", "O", "B">>

Text_carol == <<"c", "a", "r", "o", "l">>

Text_a_at_x == <<"a", "@", "x">>

Text_BUG == <<"B", "U", "G">>

Text_zzz == <<"z", "z", "z">>

Text_README == <<"R", "E", "A", "D", "M", "E">>

Text_lib == <<"l", "i", "b">>

Text_readme == <<"r", "e", "a", "d", "m", "e">>

Instants == (-1)..MaxTime

PlainTime == [seconds_since_unix_epoch |-> 1, offset_in_seconds |-> 0, sign |-> "Plus"]

LogSearch(query, author, start, end, file) ==
    [query |-> query, author |-> author, start_date |-> start,
     end_date |-> end, file |-> file]

DateSearches ==
    {LogSearch(None, None, a, b, None) :
        a \in OptionOf(Instants), b \in OptionOf(Instants)}

DateCommits ==
    {Commit(t, Alice, Bob, MsgFix, {1}, "none") : t \in CommitTimes}

TextSearches ==
    {LogSearch(q, a, None, None, f) :
        q \in OptionOf({Text_BUG, Text_zzz}),
        a \in OptionOf({Text_alice, Text_BOB, Text_carol, Text_a_at_x}),
        f \in OptionOf({Text_README})}

TextCommits ==
    {Commit(PlainTime, a, c, m, {1}, "none") :
        a \in Signatures, c \in Signatures, m \in Messages}

PathSearches ==
    {LogSearch(q, a, None, None, f) :
        q \in OptionOf({Text_BUG, Text_zzz}),
        a \in OptionOf({Text_carol}),
        f \in OptionOf({Text_README, Text_lib, Text_readme})}

PathCommits ==
    {Commit(PlainTime, Alice, Bob, MsgFix, t, x) : t \in Trees, x \in Faults}

Init ==
    /\ \/ self \in DateSearches /\ history \in SeqsUpTo(DateCommits, MaxCommits)
       \/ self \in TextSearches /\ history \in SeqsUpTo(TextCommits, MaxCommits)
       \/ self \in PathSearches /\ history \in SeqsUpTo(PathCommits, MaxCommits)
    /\ pc = "parse_date"
    /\ start_date = None
    /\ end_date = None
    /\ next = 1
    /\ commits = <<>>
    /\ calls = <<>>

(***************************************************************************)
(* run, one step of the chain at a time                                    *)
(***************************************************************************)
\* a panic unwinds run: nothing is returned
Panic ==
    /\ pc' = "panic"
    /\ commits' = <<>>

\* let mut start_date = self.start_date.map(parse_date); ... end_date ...
ParseDates ==
    /\ pc = "parse_date"
    /\ IF \/ IsSome(self.start_date) /\ ParseDatePanics(Unwrap(self.start_date))
          \/ IsSome(self.end_date) /\ ParseDatePanics(Unwrap(self.end_date))
       THEN Panic /\ UNCHANGED <<start_date, end_date>>
       ELSE /\ start_date' = MapParseDate(self.start_date)
            /\ end_date' = MapParseDate(self.end_date)
            /\ pc' = "ordering"
            /\ UNCHANGED commits
    /\ UNCHANGED <<self, history, next, calls>>

\* if end_date < start_date { (start_date, end_date) = (end_date, start_date) }
EnforceOrdering ==
    /\ pc = "ordering"
    /\ start_date' = RangeOrdered(start_date, end_date)[1]
    /\ end_date' = RangeOrdered(start_date, end_date)[2]
    /\ pc' = "skip_while"
    /\ UNCHANGED <<self, history, next, commits, calls>>

\* skip_while pulls the next commit: it drops it while the predicate holds
\* and hands the first other commit, and every later one, down the chain
SkipWhile ==
    /\ pc = "skip_while"
    /\ IF next > Len(history) THEN pc' = "collect" /\ UNCHANGED next
       ELSE IF SkipPred(end_date, history[next])
            THEN next' = next + 1 /\ UNCHANGED pc
            ELSE pc' = "take_while" /\ UNCHANGED next
    /\ UNCHANGED <<self, history, start_date, end_date, commits, calls>>

\* take_while hands the commit on while the predicate holds and ends the
\* iteration at the first commit for which it does not
TakeWhile ==
    /\ pc = "take_while"
    /\ IF next > Len(history) THEN pc' = "collect"
       ELSE IF TakePred(start_date, history[next])
            THEN pc' = "filter_map"
            ELSE pc' = "collect"
    /\ UNCHANGED <<self, history, start_date, end_date, next, commits, calls>>

\* one call of the filter_map closure
FilterMap ==
    /\ pc = "filter_map"
    /\ IF FilterPanics(self, history, next)
       THEN Panic /\ UNCHANGED <<next, calls>>
       ELSE LET decision == Decision(self, history, next)
            IN  /\ commits' = IF decision
                              THEN Append(commits, LogSearchResult(history, next))
                              ELSE commits
                /\ calls' = Append(calls,
                       [hash |-> next,
                        decision |-> decision,
                        visited |-> IF IsSome(self.file)
                                    THEN FileTest(history, next, Unwrap(self.file)).visited
                                    ELSE <<>>])
                /\ next' = next + 1
                /\ pc' = "take_while"
    /\ UNCHANGED <<self, history, start_date, end_date>>

\* .collect::<Vec<_>>() and Ok(commits)
Collect ==
    /\ pc = "collect"
    /\ pc' = "done"
    /\ UNCHANGED <<self, history, start_date, end_date, next, commits, calls>>

Next ==
    \/ ParseDates
    \/ EnforceOrdering
    \/ SkipWhile
    \/ TakeWhile
    \/ FilterMap
    \/ Collect

Spec == Init /\ [][Next]_vars

(***************************************************************************)
(* run as a function of the search and the history: the same chain, folded *)
(* over the whole walk.  skipping is skip_while's flag: it is cleared by   *)
(* the first commit the predicate lets through.                            *)
(***************************************************************************)
RECURSIVE Chain(_, _, _, _, _, _, _)
Chain(s, hist, start, end, i, skipping, acc) ==
    IF i > Len(hist) THEN [pc |-> "done", commits |-> acc]
    ELSE IF skipping /\ SkipPred(end, hist[i])
         THEN Chain(s, hist, start, end, i + 1, TRUE, acc)
    ELSE IF ~TakePred(start, hist[i]) THEN [pc |-> "done", commits |-> acc]
    ELSE IF FilterPanics(s, hist, i) THEN [pc |-> "panic", commits |-> <<>>]
    ELSE Chain(s, hist, start, end, i + 1, FALSE,
               IF Decision(s, hist, i)
               THEN Append(acc, LogSearchResult(hist, i))
               ELSE acc)

LogSearchRun(s, hist) ==
    IF \/ IsSome(s.start_date) /\ ParseDatePanics(Unwrap(s.start_date))
       \/ IsSome(s.end_date) /\ ParseDatePanics(Unwrap(s.end_date))
    THEN [pc |-> "panic", commits |-> <<>>]
    ELSE LET range == RangeOrdered(MapParseDate(s.start_date),
                                   MapParseDate(s.end_date))
         IN  Chain(s, hist, range[1], range[2], 1, TRUE, <<>>)

(***************************************************************************)
(* Properties                                                              *)
(***************************************************************************)
Returned(i) == \E k \in 1..Len(commits) : commits[k].hash = i

Hashes(results) == [k \in 1..Len(results) |-> results[k].hash]

\* the first parent of history[i] in the linear history, 0 for the root
FirstParent(i) == IF i < Len(history) THEN i + 1 ELSE 0

AuthorMatches(commit) ==
    LET q == to_lowercase(Unwrap(self.author))
    IN  \E field \in {commit.author.name, commit.author.email,
                      commit.committer.name, commit.committer.email} :
            contains(to_lowercase(field), q)

MessageMatches(commit) ==
    contains(to_lowercase(commit.message), to_lowercase(Unwrap(self.query)))

PathMatches(i) == FileTest(history, i, Unwrap(self.file)).decision

\* the locations that differ between the tree of history[i] and the tree
\* of its first parent (the empty tree for the root)
FirstParentChanges(i) ==
    Changes(history[i].tree,
            IF FirstParent(i) = 0 THEN {} ELSE history[FirstParent(i)].tree)

AllAbsent ==
    /\ ~IsSome(self.query)
    /\ ~IsSome(self.author)
    /\ ~IsSome(self.start_date)
    /\ ~IsSome(self.end_date)
    /\ ~IsSome(self.file)

\* C1: with all five criteria absent, run returns exactly one result per
\* commit of the walk from HEAD, in the order of the walk.
C1_FullAncestry ==
    (pc = "done" /\ AllAbsent) =>
        commits = [k \in 1..Len(history) |-> LogSearchResult(history, k)]

C1_Witness ==
    /\ pc = "done"
    /\ AllAbsent
    /\ Len(history) >= 2
    /\ history[1] # history[2]
    /\ Hashes(commits) = <<1, 2>>

C3_FirstParentDiff ==
    (IsSome(self.file) /\ pc # "panic") =>
        \A k \in 1..Len(calls) :
            LET i == calls[k].hash
            IN  (FirstParent(i) # 0 /\ history[i].fault = "none") =>
                    (Returned(i) <=>
                        \E j \in 1..Len(FirstParentChanges(i)) :
                            contains(FirstParentChanges(i)[j], Unwrap(self.file)))

\* C4 (as claimed): with the path criterion f, a root commit is compared
\* with the empty tree: it is returned iff some location of its tree
\* contains f.
C4_RootAgainstEmptyTree ==
    (IsSome(self.file) /\ pc # "panic") =>
        \A k \in 1..Len(calls) :
            LET i == calls[k].hash
            IN  (FirstParent(i) = 0 /\ history[i].fault = "none") =>
                    (Returned(i) <=>
                        \E p \in history[i].tree :
                            contains(AllLocations[p], Unwrap(self.file)))

\* C5: with both date bounds supplied, the search returns what the search
\* with the two bounds exchanged returns, the other criteria being equal.
C5_SwappedWindow ==
    (pc \in {"done", "panic"} /\ IsSome(self.start_date) /\ IsSome(self.end_date)) =>
        [pc |-> pc, commits |-> commits] =
            LogSearchRun([self EXCEPT !.start_date = self.end_date,
                                      !.end_date = self.start_date],
                         history)

C5_Witness ==
    /\ pc = "done"
    /\ IsSome(self.start_date)
    /\ IsSome(self.end_date)
    /\ Unwrap(self.end_date) < Unwrap(self.start_date)
    /\ commits # <<>>
    /\ Len(commits) < Len(history)

\* the commits at the head of the walk whose time is above the instant
LeadingAbove(date) ==
    CHOOSE n \in 0..Len(history) :
        /\ \A j \in 1..n : TimeGt(history[j].time, parse_date(date))
        /\ n < Len(history) => ~TimeGt(history[n + 1].time, parse_date(date))

\* C6 (as claimed): when only start_date is supplied it stays the lower
\* bound: no leading commit is skipped and the walk stops at the first
\* commit whose time is not above start_date, so (no other criterion
\* being set) the result is the head of the walk above start_date.
C6_StartStaysLowerBound ==
    (/\ pc = "done"
     /\ IsSome(self.start_date)
     /\ ~IsSome(self.end_date)
     /\ ~IsSome(self.query) /\ ~IsSome(self.author) /\ ~IsSome(self.file)) =>
        Hashes(commits) = [k \in 1..LeadingAbove(Unwrap(self.start_date)) |-> k]

Monotone ==
    \A j \in 1..(Len(history) - 1) :
        history[j].time.seconds_since_unix_epoch
            >= history[j + 1].time.seconds_since_unix_epoch

\* C7 (as claimed): with both date bounds set, no other criterion and
\* times non-increasing along the walk, the commits returned are exactly
\* those whose epoch seconds t satisfy lo < t <= hi, lo and hi being the
\* smaller and the larger bound, whatever offset the commit records.
C7_Window ==
    (/\ pc = "done"
     /\ IsSome(self.start_date)
     /\ IsSome(self.end_date)
     /\ ~IsSome(self.query) /\ ~IsSome(self.author) /\ ~IsSome(self.file)
     /\ Monotone) =>
        LET a == Unwrap(self.start_date)
            b == Unwrap(self.end_date)
            lo == IF a < b THEN a ELSE b
            hi == IF a < b THEN b ELSE a
        IN  \A i \in 1..Len(history) :
                Returned(i) <=>
                    /\ lo < history[i].time.seconds_since_unix_epoch
                    /\ history[i].time.seconds_since_unix_epoch <= hi

\* C8 (as claimed): with the path criterion set, a commit whose path test
\* fails never comes out of the filter as a match or a non-match: the
\* search ends in failure instead.
C8_PathTestFailureIsFatal ==
    IsSome(self.file) =>
        \A k \in 1..Len(calls) : history[calls[k].hash].fault = "none"

\* C9: with only the author criterion set, a commit that reaches the
\* filter is returned iff the lower-cased criterion is a substring of the
\* lower-cased author name, author email, committer name or committer
\* email.
C9_AuthorOrCommitter ==
    (IsSome(self.author) /\ ~IsSome(self.query) /\ ~IsSome(self.file)) =>
        \A k \in 1..Len(calls) :
            /\ calls[k].decision = AuthorMatches(history[calls[k].hash])
            /\ pc # "panic" =>
                  (Returned(calls[k].hash) <=> AuthorMatches(history[calls[k].hash]))

C9_Witness ==
    /\ self.author = Some(Text_BOB)
    /\ ~IsSome(self.query)
    /\ ~IsSome(self.file)
    /\ \E k \in 1..Len(calls) :
          /\ history[calls[k].hash].author = Alice
          /\ history[calls[k].hash].committer = Bob
          /\ Returned(calls[k].hash)

\* C10: the path test of one commit visits the changes in the order of
\* the diff and stops at the first one whose location contains f: what it
\* visited is the changes up to and including the first match, with a
\* match as the result, or all of them, with no match, when none contains
\* f; the call completes either way.
C10_CancelAtFirstMatch ==
    IsSome(self.file) =>
        \A k \in 1..Len(calls) :
            LET i == calls[k].hash
                f == Unwrap(self.file)
                changes == IF history[i].fault = "diff" THEN <<>>
                           ELSE Changes(history[i].tree, ParentTree(history, i))
                visited == calls[k].visited
                hits == {j \in 1..Len(changes) : contains(changes[j], f)}
            IN  /\ Len(visited) <= Len(changes)
                /\ visited = SubSeq(changes, 1, Len(visited))
                /\ IF hits = {}
                   THEN Len(visited) = Len(changes) /\ ~calls[k].decision
                   ELSE /\ \A j \in hits : Len(visited) <= j
                        /\ Len(visited) \in hits
                        /\ calls[k].decision

C10_Witness ==
    /\ IsSome(self.file)
    /\ \E k \in 1..Len(calls) :
          /\ calls[k].visited = <<ReadmeMd>>
          /\ history[calls[k].hash].tree = {1, 2}
          /\ history[calls[k].hash].fault = "walk"
          /\ calls[k].decision

====
